---- MODULE Spec2Model ----
(***************************************************************************)
(* stratisd_client_dbus/_implementation.py: the generated D-Bus proxy      *)
(* classes (ObjectManager, Filesystem, Manager, Pool), the transformation  *)
(* of keyword arguments to positional dbus-python arguments, and the       *)
(* property getters.                                                       *)
(*                                                                         *)
(* Python values are records with one field that names the type, so that   *)
(* None, 0, False and "" are four different values.                        *)
(***************************************************************************)
EXTENDS Integers, Sequences, FiniteSets, TLC

VARIABLES
    loaded,       \* number of InterfaceSpec class bodies executed (import order)
    built,        \* number of proxy classes built by types.new_class; the methods of
                  \* a class hold the (names, func) of XFORMERS, which never changes
    importError,  \* the ValueError of _info_to_xformer ended the import
    XFORMERS,     \* interface -> (method -> (names, xformer)), the class attribute
    bus,          \* the proxy object: the primitive it ran last and how often
    last,         \* the most recent operation of the caller and its outcome
    calls,        \* number of operations the caller has performed
    passed,       \* number of method operations whose keyword names were the declared ones
    opt           \* the most recent direct use of _option_to_tuple

vars == <<loaded, built, importError, XFORMERS, bus, last, calls, passed, opt>>

---------------------------------------------------------------------------
(* Bounds                                                                  *)

MaxCalls == 2
MaxSpecs == 2

---------------------------------------------------------------------------
(* Python values                                                           *)

PyNone == [none |-> "None"]
PyStr(s) == [str |-> s]
PyBool(b) == [bool |-> b]
PyInt(n) == [int |-> n]
PyList(q) == [list |-> q]
PyTuple(q) == [tuple |-> q]

chars_empty == <<>>
chars_s == <<"s">>
chars_u == <<"u">>
chars_o == <<"o">>
chars_bas == <<"b", "a", "s">>
chars_ao == <<"a", "o">>
chars_CreatePool == <<"s", "(", "b", "q", ")", "b", "a", "s">>
chars_CreateFilesystems == <<"a", "(", "s", "s", "(", "b", "t", ")", ")">>

---------------------------------------------------------------------------
(* _option_to_tuple                                                        *)

option_to_tuple_truthy(value, default) ==
    IF value \in {PyNone, PyInt(0), PyBool(FALSE), PyStr(""), PyList(<<>>), PyTuple(<<>>)}
    THEN PyTuple(<<PyBool(FALSE), default>>)
    ELSE PyTuple(<<PyBool(TRUE), value>>)

option_to_tuple(value, default) ==
    IF value = PyNone THEN PyTuple(<<PyBool(FALSE), default>>)
    ELSE PyTuple(<<PyBool(TRUE), value>>)

---------------------------------------------------------------------------
(* into_dbus_python.xformers: one encoder per complete type of a signature *)

RECURSIVE CloseIndex(_, _, _)
CloseIndex(sig, i, depth) ==
    IF i > Len(sig) THEN Len(sig)
    ELSE IF sig[i] \in {"(", "{"} THEN CloseIndex(sig, i + 1, depth + 1)
    ELSE IF sig[i] \in {")", "}"}
         THEN IF depth = 1 THEN i ELSE CloseIndex(sig, i + 1, depth - 1)
    ELSE CloseIndex(sig, i + 1, depth)

RECURSIVE TypeEnd(_, _)
TypeEnd(sig, i) ==
    IF i > Len(sig) THEN Len(sig)
    ELSE IF sig[i] = "a" THEN TypeEnd(sig, i + 1)
    ELSE IF sig[i] \in {"(", "{"} THEN CloseIndex(sig, i + 1, 1)
    ELSE i

RECURSIVE CompleteTypes(_, _)
CompleteTypes(sig, i) ==
    IF i > Len(sig) THEN <<>>
    ELSE LET e == TypeEnd(sig, i)
         IN <<SubSeq(sig, i, e)>> \o CompleteTypes(sig, e + 1)

\* xformers(sig): the list of encoders, each named by the complete type it encodes
xformers(sig) == CompleteTypes(sig, 1)

\* what the encoder of complete type c makes of x: the dbus-python value of that type
Wire(c, x) == [sig |-> c, val |-> x]

---------------------------------------------------------------------------
(* The interface specifications                                            *)

SpecOrder == <<"ObjectManager", "Filesystem", "Manager", "Pool">>
Interfaces == {SpecOrder[k] : k \in 1..Len(SpecOrder)}

INTERFACE_NAME(i) ==
    CASE i = "ObjectManager" -> "org.freedesktop.DBus.ObjectManager"
      [] i = "Filesystem" -> "org.storage.stratis1.filesystem"
      [] i = "Manager" -> "org.storage.stratis1.Manager"
      [] i = "Pool" -> "org.storage.stratis1.pool"

PROPERTIES_IFACE == "org.freedesktop.DBus.Properties"

MethodNames(i) ==
    CASE i = "ObjectManager" -> {"GetManagedObjects"}
      [] i = "Filesystem" -> {"CreateSnapshot", "SetName", "SetMountpoint", "SetQuota"}
      [] i = "Manager" -> {"ConfigureSimulator", "CreatePool", "DestroyPool"}
      [] i = "Pool" -> {"AddCacheDevs", "AddDevs", "CreateFilesystems",
                        "DestroyFilesystems", "SetName"}

PropertyNames(i) ==
    CASE i = "ObjectManager" -> {}
      [] i = "Filesystem" -> {}
      [] i = "Manager" -> {"ErrorValues", "RedundancyValues", "Version"}
      [] i = "Pool" -> {"Name", "Uuid"}

Sig(names, inxform, sig) == [names |-> names, inxform |-> inxform, sig |-> sig]

INPUT_SIGS_unparenthesized(i, m) ==
    CASE i = "ObjectManager" -> Sig(<<>>, "_FALSE", chars_empty)
      [] i = "Filesystem" ->
            (CASE m = "CreateSnapshot" -> Sig(<<"name">>, "_FALSE", chars_s)
               [] m = "SetName" -> Sig(<<"name">>, "_FALSE", chars_s)
               [] m = "SetMountpoint" -> Sig(<<>>, "_FALSE", chars_empty)
               [] m = "SetQuota" -> Sig(<<"quota">>, "_FALSE", chars_s))
      [] i = "Manager" ->
            (CASE m = "ConfigureSimulator" -> Sig(<<"denominator">>, "_FALSE", chars_u)
               [] m = "CreatePool" ->
                    Sig(<<"name", "redundancy", "force", "devices">>, "CreatePool",
                        <<"s", "b", "q", "b", "a", "s">>)
               [] m = "DestroyPool" -> Sig(<<"pool_object_path">>, "_FALSE", chars_o))
      [] i = "Pool" ->
            (CASE m = "AddCacheDevs" -> Sig(<<"force", "devices">>, "_FALSE", chars_bas)
               [] m = "AddDevs" -> Sig(<<"force", "devices">>, "_FALSE", chars_bas)
               [] m = "CreateFilesystems" ->
                    Sig(<<"specs">>, "CreateFilesystems", chars_CreateFilesystems)
               [] m = "DestroyFilesystems" -> Sig(<<"filesystems">>, "_FALSE", chars_ao)
               [] m = "SetName" -> Sig(<<"new_name">>, "_FALSE", chars_s))

INPUT_SIGS(i, m) ==
    CASE i = "ObjectManager" -> Sig(<<>>, "_FALSE", chars_empty)
      [] i = "Filesystem" ->
            (CASE m = "CreateSnapshot" -> Sig(<<"name">>, "_FALSE", chars_s)
               [] m = "SetName" -> Sig(<<"name">>, "_FALSE", chars_s)
               [] m = "SetMountpoint" -> Sig(<<>>, "_FALSE", chars_empty)
               [] m = "SetQuota" -> Sig(<<"quota">>, "_FALSE", chars_s))
      [] i = "Manager" ->
            (CASE m = "ConfigureSimulator" -> Sig(<<"denominator">>, "_FALSE", chars_u)
               [] m = "CreatePool" ->
                    Sig(<<"name", "redundancy", "force", "devices">>, "CreatePool",
                        chars_CreatePool)
               [] m = "DestroyPool" -> Sig(<<"pool_object_path">>, "_FALSE", chars_o))
      [] i = "Pool" ->
            (CASE m = "AddCacheDevs" -> Sig(<<"force", "devices">>, "_FALSE", chars_bas)
               [] m = "AddDevs" -> Sig(<<"force", "devices">>, "_FALSE", chars_bas)
               [] m = "CreateFilesystems" ->
                    Sig(<<"specs">>, "CreateFilesystems", chars_CreateFilesystems)
               [] m = "DestroyFilesystems" -> Sig(<<"filesystems">>, "_FALSE", chars_ao)
               [] m = "SetName" -> Sig(<<"new_name">>, "_FALSE", chars_s))

\* inxform(name): the pre-encoder the selector of a method yields for a parameter
inxform_on_force(sel, name) ==
    CASE sel = "_FALSE" -> "identity"
      [] sel = "CreatePool" -> IF name = "force" THEN "option" ELSE "identity"
      [] sel = "CreateFilesystems" -> "specs"

inxform(sel, name) ==
    CASE sel = "_FALSE" -> "identity"
      [] sel = "CreatePool" -> IF name = "redundancy" THEN "option" ELSE "identity"
      [] sel = "CreateFilesystems" -> "specs"

\* the pre-encoder g applied to x
apply_inxform_no_quota(g, x) ==
    CASE g = "identity" -> x
      [] g = "option" -> option_to_tuple(x, PyInt(0))
      [] g = "specs" -> x

apply_inxform(g, x) ==
    CASE g = "identity" -> x
      [] g = "option" -> option_to_tuple(x, PyInt(0))
      [] g = "specs" ->
            PyList([k \in 1..Len(x.list) |->
                    PyTuple(<<x.list[k].tuple[1], x.list[k].tuple[2],
                            option_to_tuple(x.list[k].tuple[3], PyInt(0))>>)])

---------------------------------------------------------------------------
(* Exceptions: the type and the words of the message                       *)

NoError == [type |-> "", msg |-> <<>>]
ValueError(msg) == [type |-> "ValueError", msg |-> msg]
DBusException == [type |-> "DBusException", msg |-> <<>>]

Min(a, b) == IF a < b THEN a ELSE b

---------------------------------------------------------------------------
(* _info_to_xformer, its xformer, and _xformers                            *)

info_to_xformer(names, sel, sig) ==
    LET inxforms == [k \in 1..Len(names) |-> inxform(sel, names[k])]
        outxforms == xformers(sig)
        expected_length == Len(names)
    IN [raised |-> Len(outxforms) # expected_length,
        inxforms |-> inxforms,
        outxforms |-> outxforms,
        expected_length |-> expected_length]

\* xformer(objects) of the closure func: the error raised, or the transformed list
xformer(func, objects) ==
    IF Len(objects) # func.expected_length
    THEN [error |-> ValueError(<<"wrong", "number", "of", "objects">>), result |-> <<>>]
    ELSE LET n == Min(Min(Len(func.outxforms), Len(func.inxforms)), Len(objects))
         IN [error |-> NoError,
             result |-> [k \in 1..n |->
                            Wire(func.outxforms[k], apply_inxform(func.inxforms[k], objects[k]))]]

\* _xformers(INPUT_SIGS) of interface i
xformers_table(i) ==
    [m \in MethodNames(i) |->
        LET s == INPUT_SIGS(i, m)
        IN [names |-> s.names, func |-> info_to_xformer(s.names, s.inxform, s.sig)]]

---------------------------------------------------------------------------
(* The method of a proxy class: build_method's dbus_func                   *)

frozenset(q) == {q[k] : k \in 1..Len(q)}
keys(kwargs) == {kwargs[k].key : k \in 1..Len(kwargs)}

\* names.index(k), 0 when k is not in names (Python raises ValueError)
index(names, k) ==
    LET at == {j \in 1..Len(names) : names[j] = k}
    IN IF at = {} THEN 0 ELSE CHOOSE j \in at : \A h \in at : j <= h

\* the check of line 349: TRUE when "Bad keys" is raised
bad_keys_subset(names, kwargs) == ~(keys(kwargs) \subseteq frozenset(names))

bad_keys_superset(names, kwargs) == ~(frozenset(names) \subseteq keys(kwargs))

bad_keys(names, kwargs) == frozenset(names) # keys(kwargs)

bad_keys_error_naming(names, kwargs) ==
    ValueError(<<"Bad", "keys">>
               \o [k \in 1..Len(kwargs) |-> kwargs[k].key])

bad_keys_error(names, kwargs) == ValueError(<<"Bad", "keys">>)

\* sorted(kwargs.items(), key=lambda x: names.index(x[0])): a stable sort, so
\* the last item goes behind the items before it whose key is not greater
RECURSIVE sorted(_, _)
sorted(items, names) ==
    IF items = <<>> THEN <<>>
    ELSE LET n == Len(items)
             head == sorted(SubSeq(items, 1, n - 1), names)
             x == index(names, items[n].key)
             pos == Cardinality({j \in 1..Len(head) : index(names, head[j].key) <= x})
         IN SubSeq(head, 1, pos) \o <<items[n]>> \o SubSeq(head, pos + 1, Len(head))

\* args of lines 351-353
sorted_args_unsorted(kwargs, names) == [k \in 1..Len(kwargs) |-> kwargs[k].value]

sorted_args(kwargs, names) ==
    LET items == sorted(kwargs, names)
    IN [k \in 1..Len(items) |-> items[k].value]

\* what an operation has done when it turns to the bus, or has raised
Request(error, reached, objects, sent, name, args, iface) ==
    [error |-> error, reached |-> reached, objects |-> objects, sent |-> sent,
     name |-> name, args |-> args, dbus_interface |-> iface]

Raise(error, reached, objects) == Request(error, reached, objects, FALSE, "", <<>>, "")

\* dbus_func(proxy_object, **kwargs) of method `method` of interface i, whose
\* closure holds entry = (names, func), up to the call of the proxy object's
\* method: getattr(proxy_object, method.name)(*xformed_args, dbus_interface=...);
\* `ran` is what the bus ran last
dbus_func_memo(i, method, entry, kwargs, ran) ==
    IF bad_keys(entry.names, kwargs)
    THEN Raise(bad_keys_error(entry.names, kwargs), FALSE, <<>>)
    ELSE IF \E k \in 1..Len(kwargs) : index(entry.names, kwargs[k].key) = 0
    THEN Raise(ValueError(<<"is", "not", "in", "tuple">>), FALSE, <<>>)
    ELSE LET args == sorted_args(kwargs, entry.names)
             x == xformer(entry.func, args)
         IN IF x.error # NoError THEN Raise(x.error, TRUE, args)
            ELSE IF ran.name = method /\ ran.args = x.result
                    /\ ran.dbus_interface = INTERFACE_NAME(i)
            THEN Raise(NoError, TRUE, args)
            ELSE Request(NoError, TRUE, args, TRUE, method, x.result, INTERFACE_NAME(i))

dbus_func(i, method, entry, kwargs, ran) ==
    IF bad_keys(entry.names, kwargs)
    THEN Raise(bad_keys_error(entry.names, kwargs), FALSE, <<>>)
    ELSE IF \E k \in 1..Len(kwargs) : index(entry.names, kwargs[k].key) = 0
    THEN Raise(ValueError(<<"is", "not", "in", "tuple">>), FALSE, <<>>)
    ELSE LET args == sorted_args(kwargs, entry.names)
             x == xformer(entry.func, args)
         IN IF x.error # NoError THEN Raise(x.error, TRUE, args)
            ELSE Request(NoError, TRUE, args, TRUE, method, x.result, INTERFACE_NAME(i))

\* the property getter, build_property's dbus_func(proxy_object), up to the call
\* of proxy_object.Get
prop_dbus_func_own_interface(i, prop) ==
    Request(NoError, FALSE, <<>>, TRUE, "Get",
            <<PyStr(INTERFACE_NAME(i)), PyStr(prop)>>, INTERFACE_NAME(i))

prop_dbus_func(i, prop) ==
    Request(NoError, FALSE, <<>>, TRUE, "Get",
            <<PyStr(INTERFACE_NAME(i)), PyStr(prop)>>, PROPERTIES_IFACE)

\* how the operation ends: with its own exception, with the exception of the
\* bus, or returning what the bus returned
Return(req, t) ==
    IF ~req.sent THEN [error |-> req.error, returned |-> FALSE, ret |-> PyNone]
    ELSE IF t.raises THEN [error |-> DBusException, returned |-> FALSE, ret |-> PyNone]
    ELSE [error |-> NoError, returned |-> TRUE, ret |-> t.value]

---------------------------------------------------------------------------
(* The caller's inputs                                                     *)

Bogus == "bogus"

\* the sequences over S of length at most n
SeqsUpTo(S, n) == UNION {[1..k -> S] : k \in 0..n}

SpecItems ==
    {PyTuple(<<PyStr("fs1"), PyStr("/mnt/fs1"), PyNone>>),
     PyTuple(<<PyStr("fs2"), PyStr("/mnt/fs2"), PyInt(0)>>)}

ParamValues(name) ==
    CASE name = "name" -> {PyStr("p1")}
      [] name = "redundancy" -> {PyNone, PyInt(0)}
      [] name = "force" -> {PyBool(FALSE)}
      [] name = "devices" -> {PyList(<<PyStr("d1"), PyStr("d2")>>)}
      [] name = "denominator" -> {PyInt(8)}
      [] name = "pool_object_path" -> {PyStr("/o/1"), PyStr("/o/2")}
      [] name = "quota" -> {PyStr("10")}
      [] name = "specs" -> {PyList(q) : q \in SeqsUpTo(SpecItems, MaxSpecs)}
      [] name = "filesystems" -> {PyList(<<PyStr("/o/3")>>)}
      [] name = "new_name" -> {PyStr("p2")}
      [] name = Bogus -> {PyNone}

\* every way to give the keys of keyseq, in that order, a value of theirs
Assign(keyseq) ==
    LET n == Len(keyseq)
        values == UNION {ParamValues(keyseq[k]) : k \in 1..n}
    IN {[k \in 1..n |-> [key |-> keyseq[k], value |-> f[k]]] :
           f \in {g \in [1..n -> values] : \A k \in 1..n : g[k] \in ParamValues(keyseq[k])}}

\* the orders in which the keys S can be written
Orders(S) ==
    {q \in [1..Cardinality(S) -> S] :
        \A a, b \in 1..Cardinality(S) : a # b => q[a] # q[b]}

\* **kwargs: a dict keeps the order of its keywords and holds no key twice.
\* The declared names in every keyword order, and every other subset of the
\* declared names and one undeclared name
Kwargs(names) ==
    UNION {Assign(q) : q \in Orders(frozenset(names))}
    \cup UNION {Assign(SelectSeq(Append(names, Bogus), LAMBDA k : k \in T)) :
                   T \in SUBSET (frozenset(names) \cup {Bogus})}

DeclaredNames(i, m) == frozenset(INPUT_SIGS(i, m).names)

MethodCalls ==
    UNION {UNION {{[iface |-> i, method |-> m, kwargs |-> kw] :
                      kw \in Kwargs(INPUT_SIGS(i, m).names)} :
                  m \in MethodNames(i)} :
           i \in Interfaces}

\* the values of the parameters `names`, in that order
ArgLists(names) ==
    LET n == Len(names)
        values == UNION {ParamValues(names[k]) : k \in 1..n}
    IN {g \in [1..n -> values] : \A k \in 1..n : g[k] \in ParamValues(names[k])}

\* lists handed to an xformer directly: of the declared length, one shorter, one longer
ObjectLists(names) ==
    UNION {{a, Append(a, PyNone)} \cup
           (IF a = <<>> THEN {} ELSE {SubSeq(a, 1, Len(a) - 1)}) : a \in ArgLists(names)}

XformerCalls ==
    UNION {UNION {{[iface |-> i, method |-> m, objects |-> q] :
                      q \in ObjectLists(INPUT_SIGS(i, m).names)} :
                  m \in MethodNames(i)} :
           i \in Interfaces}

PropertyReads ==
    UNION {{[iface |-> i, prop |-> p] : p \in PropertyNames(i)} : i \in Interfaces}

ReturnValues ==
    {PyTuple(<<PyBool(TRUE), PyInt(0), PyStr("")>>),
     PyTuple(<<PyBool(FALSE), PyInt(1), PyStr("error")>>)}

\* the bus was not asked
NoOutcome == [raises |-> FALSE, value |-> PyNone]

\* what the bus does with a call: a value for the caller, or an exception
BusOutcomes ==
    {[raises |-> FALSE, value |-> v] : v \in ReturnValues}
    \cup {[raises |-> TRUE, value |-> PyNone]}

OptionValues ==
    {PyNone, PyInt(0), PyInt(1), PyInt(7), PyBool(FALSE), PyBool(TRUE), PyStr(""),
     PyStr("a"), PyList(<<>>), PyList(<<PyInt(0)>>), PyTuple(<<>>)}

OptionDefaults == OptionValues

---------------------------------------------------------------------------
(* The state machine                                                       *)

EmptyMap == [i \in {} |-> {}]

NoBus == [name |-> "", args |-> <<>>, dbus_interface |-> "", invokes |-> 0, gets |-> 0]

NoLast ==
    [kind |-> "none", iface |-> "", name |-> "", kwargs |-> <<>>,
     req |-> Raise(NoError, FALSE, <<>>), tout |-> NoOutcome,
     out |-> [error |-> NoError, returned |-> FALSE, ret |-> PyNone]]

Init ==
    /\ loaded = 0
    /\ built = 0
    /\ importError = FALSE
    /\ XFORMERS = EmptyMap
    /\ bus = NoBus
    /\ last = NoLast
    /\ calls = 0
    /\ passed = 0
    /\ opt = [applied |-> FALSE, value |-> PyNone, default |-> PyNone, result |-> PyNone]

\* the next InterfaceSpec class body: XFORMERS = _xformers(INPUT_SIGS)
LoadSpec ==
    /\ ~importError
    /\ loaded < Len(SpecOrder)
    /\ LET i == SpecOrder[loaded + 1]
           table == xformers_table(i)
       IN IF \E m \in MethodNames(i) : table[m].func.raised
          THEN /\ importError' = TRUE
               /\ UNCHANGED <<loaded, XFORMERS>>
          ELSE /\ XFORMERS' = [j \in DOMAIN XFORMERS \cup {i} |->
                                  IF j = i THEN table ELSE XFORMERS[j]]
               /\ loaded' = loaded + 1
               /\ UNCHANGED importError
    /\ UNCHANGED <<built, bus, last, calls, passed, opt>>

\* the next types.new_class(..., exec_body=_iface_builder(spec)): build_method
\* reads (names, func) = spec.XFORMERS[method] for every method
BuildClass ==
    /\ ~importError
    /\ loaded = Len(SpecOrder)
    /\ built < Len(SpecOrder)
    /\ MethodNames(SpecOrder[built + 1]) \subseteq DOMAIN XFORMERS[SpecOrder[built + 1]]
    /\ built' = built + 1
    /\ UNCHANGED <<loaded, importError, XFORMERS, bus, last, calls, passed, opt>>

Imported == ~importError /\ built = Len(SpecOrder)

\* the module is imported and the caller has operations left
Ready == Imported /\ calls < MaxCalls

\* the bus after the request req of an operation
BusAfter(req, isGet) ==
    IF req.sent
    THEN [name |-> req.name, args |-> req.args, dbus_interface |-> req.dbus_interface,
          invokes |-> bus.invokes + (IF isGet THEN 0 ELSE 1),
          gets |-> bus.gets + (IF isGet THEN 1 ELSE 0)]
    ELSE bus

\* the answers of the bus to an operation: one of its outcomes when the operation
\* asks it, none when it does not
Answers(asked) == IF asked THEN BusOutcomes ELSE {NoOutcome}

Operation(kind, iface, name, kwargs, req, t) ==
    [kind |-> kind, iface |-> iface, name |-> name, kwargs |-> kwargs,
     req |-> req, tout |-> t, out |-> Return(req, t)]

\* Interface.Method(proxy_object, **kwargs)
CallMethod(c) ==
    /\ Ready
    /\ \E req \in {dbus_func(c.iface, c.method, XFORMERS[c.iface][c.method],
                             c.kwargs, bus)} :
         \E t \in Answers(req.sent) :
            /\ bus' = BusAfter(req, FALSE)
            /\ last' = Operation("method", c.iface, c.method, c.kwargs, req, t)
    /\ calls' = calls + 1
    /\ passed' = passed + (IF keys(c.kwargs) = DeclaredNames(c.iface, c.method)
                           THEN 1 ELSE 0)
    /\ UNCHANGED <<loaded, built, importError, XFORMERS, opt>>

\* Interface.Properties.Prop(proxy_object)
ReadProperty(r) ==
    /\ Ready
    /\ \E req \in {prop_dbus_func(r.iface, r.prop)} :
         \E t \in Answers(req.sent) :
            /\ bus' = BusAfter(req, TRUE)
            /\ last' = Operation("property", r.iface, r.prop, <<>>, req, t)
    /\ calls' = calls + 1
    /\ UNCHANGED <<loaded, built, importError, XFORMERS, passed, opt>>

\* Spec.XFORMERS[method][1](objects): the xformer used directly
CallXformer(c) ==
    /\ Ready
    /\ \E x \in {xformer(XFORMERS[c.iface][c.method].func, c.objects)} :
         last' = [kind |-> "xformer", iface |-> c.iface, name |-> c.method,
                  kwargs |-> <<>>,
                  req |-> Request(x.error, TRUE, c.objects, FALSE, "", x.result, ""),
                  tout |-> NoOutcome,
                  out |-> [error |-> x.error, returned |-> x.error = NoError,
                           ret |-> PyList(x.result)]]
    /\ calls' = calls + 1
    /\ UNCHANGED <<loaded, built, importError, XFORMERS, bus, passed, opt>>

\* _option_to_tuple(value, default)
OptionToTuple(value, default) ==
    /\ opt' = [applied |-> TRUE, value |-> value, default |-> default,
               result |-> option_to_tuple(value, default)]
    /\ UNCHANGED <<loaded, built, importError, XFORMERS, bus, last, calls,
                   passed>>

Next ==
    \/ LoadSpec
    \/ BuildClass
    \/ \E c \in MethodCalls : CallMethod(c)
    \/ \E r \in PropertyReads : ReadProperty(r)
    \/ \E c \in XformerCalls : CallXformer(c)

Spec == Init /\ [][Next]_vars

NextOption ==
    \E value \in OptionValues, default \in OptionDefaults : OptionToTuple(value, default)

SpecOption == Init /\ [][NextOption]_vars

---------------------------------------------------------------------------
(* What the properties speak of                                            *)

BadKeys == ValueError(<<"Bad", "keys">>)
WrongNumber == ValueError(<<"wrong", "number", "of", "objects">>)

\* the declared parameter names of the operation `op`
Declared(op) == INPUT_SIGS(op.iface, op.name).names

\* `op` is a method operation whose keyword names are not exactly the declared ones
Mismatched(op) == op.kind = "method" /\ keys(op.kwargs) # frozenset(Declared(op))

\* `op` is a method operation whose keyword names are exactly the declared ones
Matched(op) == op.kind = "method" /\ keys(op.kwargs) = frozenset(Declared(op))

\* the supplied names that are not declared and the declared names not supplied
Offending(op) ==
    (keys(op.kwargs) \ frozenset(Declared(op)))
    \cup (frozenset(Declared(op)) \ keys(op.kwargs))

\* the value the keywords give the name k
Supplied(kwargs, k) == kwargs[CHOOSE j \in 1..Len(kwargs) : kwargs[j].key = k].value

\* the message of the error names k
Mentions(error, k) == \E j \in 1..Len(error.msg) : error.msg[j] = k

\* the step is an operation of the caller
Operated == calls' = calls + 1

Absent0 == PyTuple(<<PyBool(FALSE), PyInt(0)>>)
Present(v) == PyTuple(<<PyBool(TRUE), v>>)

---------------------------------------------------------------------------
(* C1: a method operation called with keyword names that are not exactly   *)
(* the declared parameter names (more, fewer, other, none) fails with the  *)
(* ValueError "Bad keys", returns nothing, and leaves the bus as it was:   *)
(* the method of the proxy object is not called for that call.             *)
C1_BadKeysNoCall ==
    [][(Operated /\ Mismatched(last'))
          => /\ last'.out.error = BadKeys
             /\ ~last'.out.returned
             /\ ~last'.req.reached
             /\ bus' = bus]_vars

C1_Witness ==
    /\ Mismatched(last)
    /\ last.name = "CreatePool"
    /\ keys(last.kwargs) = {"name", "force", Bogus}
    /\ last.out.error = BadKeys
    /\ bus.invokes = 1

(* C2: a method operation called with exactly the declared names, in any   *)
(* keyword order, hands the bus the arguments in declared order: position  *)
(* k is the encoder of the k-th complete type of the signature applied to  *)
(* the pre-encoder of the k-th name applied to the value supplied for the  *)
(* k-th name. The list depends on the name-to-value mapping only.          *)
C2_DeclaredOrder ==
    Matched(last) =>
        LET s == INPUT_SIGS(last.iface, last.name)
        IN /\ last.req.sent
           /\ bus.args = last.req.args
           /\ Len(bus.args) = Len(s.names)
           /\ \A k \in 1..Len(s.names) :
                 bus.args[k] =
                    Wire(xformers(s.sig)[k],
                         apply_inxform(inxform(s.inxform, s.names[k]),
                                       Supplied(last.kwargs, s.names[k])))

C2_Witness ==
    /\ Matched(last)
    /\ last.name = "CreatePool"
    /\ last.kwargs[1].key = "devices"
    /\ last.kwargs[2].key = "redundancy"
    /\ last.kwargs[3].key = "name"
    /\ last.req.sent
    /\ bus.args[1].val = PyStr("p1")

(* C3: Manager.CreatePool(name, redundancy, force, devices) hands the bus  *)
(* (name, option(redundancy), force, devices) in this order: redundancy    *)
(* None becomes (False, 0), any other redundancy r becomes (True, r), and  *)
(* name, force and devices pass unchanged.                                 *)
C3_CreatePool ==
    (Matched(last) /\ last.iface = "Manager" /\ last.name = "CreatePool") =>
        LET r == Supplied(last.kwargs, "redundancy")
        IN /\ bus.name = "CreatePool"
           /\ bus.dbus_interface = "org.storage.stratis1.Manager"
           /\ bus.args =
                <<Wire(<<"s">>, Supplied(last.kwargs, "name")),
                  Wire(<<"(", "b", "q", ")">>, IF r = PyNone THEN Absent0 ELSE Present(r)),
                  Wire(<<"b">>, Supplied(last.kwargs, "force")),
                  Wire(<<"a", "s">>, Supplied(last.kwargs, "devices"))>>

C3_Witness ==
    /\ Matched(last)
    /\ last.name = "CreatePool"
    /\ last.kwargs[1].key = "force"
    /\ Supplied(last.kwargs, "redundancy") = PyNone
    /\ bus.name = "CreatePool"
    /\ bus.args[2].val = Absent0
    /\ bus.args[3].val = PyBool(FALSE)
    /\ bus.args[4].val = PyList(<<PyStr("d1"), PyStr("d2")>>)

(* C4: Pool.CreateFilesystems(specs) hands the bus one argument, a list as *)
(* long as specs in which the k-th spec (a, b, quota) has become           *)
(* (a, b, option(quota)): quota None becomes (False, 0), any other quota q *)
(* becomes (True, q).                                                      *)
C4_CreateFilesystems ==
    (Matched(last) /\ last.iface = "Pool" /\ last.name = "CreateFilesystems") =>
        LET specs == Supplied(last.kwargs, "specs").list
        IN /\ bus.name = "CreateFilesystems"
           /\ Len(bus.args) = 1
           /\ bus.args[1].sig = <<"a", "(", "s", "s", "(", "b", "t", ")", ")">>
           /\ DOMAIN bus.args[1].val = {"list"}
           /\ Len(bus.args[1].val.list) = Len(specs)
           /\ \A k \in 1..Len(specs) :
                 bus.args[1].val.list[k] =
                    PyTuple(<<specs[k].tuple[1], specs[k].tuple[2],
                              IF specs[k].tuple[3] = PyNone THEN Absent0
                              ELSE Present(specs[k].tuple[3])>>)

C4_Witness ==
    /\ Matched(last)
    /\ last.name = "CreateFilesystems"
    /\ Supplied(last.kwargs, "specs")
          = PyList(<<PyTuple(<<PyStr("fs1"), PyStr("/mnt/fs1"), PyNone>>)>>)
    /\ bus.args[1].val
          = PyList(<<PyTuple(<<PyStr("fs1"), PyStr("/mnt/fs1"), Absent0>>)>>)

(* C5: _option_to_tuple(value, default) is (False, default) when value is  *)
(* None and (True, value) for every other value, also for 0, False, "",    *)
(* the empty list and a value equal to the default.                        *)
C5_OptionToTuple ==
    opt.applied =>
        /\ DOMAIN opt.result = {"tuple"}
        /\ Len(opt.result.tuple) = 2
        /\ opt.value = PyNone =>
              opt.result.tuple[1] = PyBool(FALSE) /\ opt.result.tuple[2] = opt.default
        /\ opt.value # PyNone =>
              opt.result.tuple[1] = PyBool(TRUE) /\ opt.result.tuple[2] = opt.value

C5_Witness ==
    /\ opt.applied
    /\ opt.value = PyInt(0)
    /\ opt.default = PyInt(0)
    /\ opt.result = Present(PyInt(0))

(* C6: for every method of the four interfaces the signature has as many   *)
(* complete types as the method has parameter names, so the import builds  *)
(* the xformer of every method and never ends with the ValueError          *)
(* "xformation functions do not match".                                    *)
C6_SignaturesMatch ==
    /\ ~importError
    /\ DOMAIN XFORMERS = {SpecOrder[k] : k \in 1..loaded}
    /\ \A i \in DOMAIN XFORMERS :
          /\ DOMAIN XFORMERS[i] = MethodNames(i)
          /\ \A m \in MethodNames(i) :
                /\ ~XFORMERS[i][m].func.raised
                /\ XFORMERS[i][m].names = INPUT_SIGS(i, m).names
                /\ Len(XFORMERS[i][m].func.outxforms) = Len(INPUT_SIGS(i, m).names)
                /\ XFORMERS[i][m].func.expected_length = Len(INPUT_SIGS(i, m).names)

C6_Witness ==
    /\ loaded = 4
    /\ built = 4
    /\ DOMAIN XFORMERS = Interfaces
    /\ Len(XFORMERS["Manager"]["CreatePool"].func.outxforms) = 4
    /\ Len(XFORMERS["Pool"]["CreateFilesystems"].func.outxforms) = 1

(* C7: every method operation called with exactly the declared names calls *)
(* the method of that name of the proxy object once, with the interface    *)
(* name of its class, and returns what that call returns; nothing is       *)
(* cached, so the bus has run as many method calls as such operations were *)
(* performed, also when they repeat their arguments.                       *)
C7_OneCallEach ==
    /\ bus.invokes = passed
    /\ Matched(last) =>
          /\ last.req.sent
          /\ bus.name = last.name
          /\ bus.dbus_interface = INTERFACE_NAME(last.iface)
          /\ ~last.tout.raises => last.out.returned /\ last.out.ret = last.tout.value
          /\ (last.iface = "Manager" /\ last.name = "DestroyPool"
              /\ Supplied(last.kwargs, "pool_object_path") = PyStr("/o/1")) =>
                /\ bus.name = "DestroyPool"
                /\ bus.dbus_interface = "org.storage.stratis1.Manager"
                /\ bus.args = <<Wire(<<"o">>, PyStr("/o/1"))>>

C7_Witness ==
    /\ Matched(last)
    /\ last.iface = "Manager"
    /\ last.name = "DestroyPool"
    /\ Supplied(last.kwargs, "pool_object_path") = PyStr("/o/1")
    /\ last.out.returned
    /\ last.out.ret = PyTuple(<<PyBool(FALSE), PyInt(1), PyStr("error")>>)
    /\ bus.args = <<Wire(<<"o">>, PyStr("/o/1"))>>
    /\ passed = 2
    /\ bus.invokes = 2

(* C8: a property getter calls Get of the proxy object with the interface  *)
(* name of its class and the name of the property, unencoded, on the       *)
(* properties interface, returns what Get returns, calls no method of the  *)
(* bus and leaves XFORMERS as it was.                                      *)
C8_PropertyRead ==
    [][(Operated /\ last'.kind = "property")
          => /\ bus'.name = "Get"
             /\ bus'.args = <<PyStr(INTERFACE_NAME(last'.iface)), PyStr(last'.name)>>
             /\ bus'.dbus_interface = "org.freedesktop.DBus.Properties"
             /\ bus'.gets = bus.gets + 1
             /\ bus'.invokes = bus.invokes
             /\ ~last'.req.reached
             /\ ~last'.tout.raises =>
                   last'.out.returned /\ last'.out.ret = last'.tout.value
             /\ XFORMERS' = XFORMERS
             /\ UNCHANGED <<loaded, built, importError>>]_vars

C8_Witness ==
    /\ last.kind = "property"
    /\ last.iface = "Manager"
    /\ last.name = "Version"
    /\ last.out.returned
    /\ bus.args = <<PyStr("org.storage.stratis1.Manager"), PyStr("Version")>>
    /\ bus.invokes = 1
    /\ bus.gets = 1

(* C9, as stated: the error of a method operation called with keyword      *)
(* names that are not exactly the declared ones names the offending keys.  *)
C9_Original ==
    Mismatched(last) => \A k \in Offending(last) : Mentions(last.out.error, k)

(* C9, amended: the error of a method operation called with keyword names  *)
(* that are not exactly the declared ones is the ValueError with the fixed *)
(* message "Bad keys", whatever the keys: it names none of them.           *)
C9_FixedMessage ==
    Mismatched(last) =>
        /\ last.out.error.type = "ValueError"
        /\ last.out.error.msg = <<"Bad", "keys">>
        /\ \A k \in Offending(last) : ~Mentions(last.out.error, k)

C9_Witness ==
    /\ Mismatched(last)
    /\ last.name = "AddDevs"
    /\ Offending(last) = {"devices", Bogus}
    /\ last.out.error.msg = <<"Bad", "keys">>

(* C10: no method operation ends with the ValueError "wrong number of      *)
(* objects": it fails the check of its keyword names before the xformer,   *)
(* or the xformer gets as many objects as the method has names. The error  *)
(* arises only when an xformer is used directly with a list of another     *)
(* length.                                                                 *)
C10_ArityUnreachable ==
    /\ last.kind = "method" =>
          /\ last.out.error # WrongNumber
          /\ last.req.reached => Len(last.req.objects) = Len(Declared(last))
          /\ ~last.req.reached => last.out.error = BadKeys
    /\ last.out.error = WrongNumber =>
          last.kind = "xformer" /\ Len(last.req.objects) # Len(Declared(last))

C10_Witness ==
    /\ last.kind = "method"
    /\ last.name = "CreatePool"
    /\ last.req.reached
    /\ Len(last.req.objects) = 4
    /\ last.out.error = NoError

====
